---- MODULE Spec2Model ----
(***************************************************************************)
(* The StarkNet contract-module expander of                                *)
(* crates/cairo-lang-starknet/src/plugin/contract.rs.                      *)
(*                                                                         *)
(* A module is expanded by handle_module (on the module item) and by       *)
(* handle_contract_by_storage (on a struct of its body).  The second one   *)
(* is modelled loop iteration by loop iteration: the first loop collects   *)
(* the use-set and has_event, the seeding step closes the use-set, the     *)
(* second loop fills the generation record, the assembler builds the       *)
(* result.                                                                 *)
(***************************************************************************)
EXTENDS Naturals, Sequences, FiniteSets, TLC

VARIABLES
    module,               \* the module item being expanded (ast::ItemModule)
    module_result,        \* what handle_module returned for it
    struct_idx,           \* body index of the struct handed to handle_contract_by_storage
    results,              \* what handle_contract_by_storage returned, per struct, in call order
    pc,                   \* position of the expansion
    i,                    \* index of the body item the current loop is at
    k,                    \* functions of the current #[external] impl already handled
    diagnostics,          \* let mut diagnostics
    kept_original_items,  \* let mut kept_original_items
    extra_uses,           \* let mut extra_uses (OrderedHashMap: sequence of entries)
    has_event,            \* let mut has_event
    extra_uses_node,      \* let extra_uses_node
    data,                 \* let mut data: ContractGenerationData
    storage_code          \* let mut storage_code

vars == <<module, module_result, struct_idx, results, pc, i, k, diagnostics,
          kept_original_items, extra_uses, has_event, extra_uses_node, data,
          storage_code>>

----------------------------------------------------------------------------
(* Bounds *)

\* Longest module body explored.
MaxItems == 3

----------------------------------------------------------------------------
(* Names fixed by the plugin *)

CONTRACT_ATTR == "contract"
EVENT_ATTR == "event"
EXTERNAL_ATTR == "external"
CONSTRUCTOR_ATTR == "constructor"
L1_HANDLER_ATTR == "l1_handler"
STORAGE_ATTR == "starknet::storage"
STORAGE_STRUCT_NAME == "Storage"
L1_HANDLER_FIRST_PARAM_NAME == <<"from_address">>

MsgNoBody == "Contracts without body are not supported."
MsgNoStorage == "Contracts must define a 'Storage' struct."
MsgStorageAttr == "'Storage' struct must be annotated with #[starknet::storage]."
MsgGeneric == "Contract entry points cannot have generic arguments"
\* (the source quotes felt252 in backquotes, which a TLA+ string cannot hold)
MsgL1Type == "The second parameter of an L1 handler must be of type felt252."
MsgL1Name == "The second parameter of an L1 handler must be named 'from_address'."
MsgL1Missing == "An L1 handler must have the 'from_address' as its second parameter."
\* Diagnostics of the external collaborators are opaque: one message each.
MsgWrapper == "entry point wrapper diagnostic"
MsgEvent == "event diagnostic"

\* The seed of the use-set, in the order of the array of the source.
SEED_USES ==
    << [key |-> "ClassHashSerde", path |-> "starknet::class_hash::ClassHashSerde"],
       [key |-> "ContractAddressSerde",
        path |-> "starknet::contract_address::ContractAddressSerde"],
       [key |-> "StorageAddressSerde",
        path |-> "starknet::storage_access::StorageAddressSerde"],
       [key |-> "OptionTrait", path |-> "option::OptionTrait"],
       [key |-> "OptionTraitImpl", path |-> "option::OptionTraitImpl"] >>

----------------------------------------------------------------------------
(* Syntax trees: the inputs *)

\* A parameter: its name as a sequence of tokens ("_" is one leading
\* underscore), its type, whether it carries the `mut` modifier.
Param(name, ty, is_mut) == [name |-> name, ty |-> ty, is_mut |-> is_mut]

SelfParam == Param(<<"self">>, "ContractState", FALSE)

\* A function with a body (ast::FunctionWithBody).  wrapper_ok is whether
\* generate_entry_point_wrapper returns Ok for it, event_ok whether
\* handle_event returns a pair of rewrite nodes for it: both are functions
\* of the syntax alone.
Fn(name, attrs, generic, params, wrapper_ok, event_ok) ==
    [name |-> name, attrs |-> attrs, generic |-> generic, params |-> params,
     wrapper_ok |-> wrapper_ok, event_ok |-> event_ok]

NoFn == Fn("", {}, FALSE, <<>>, TRUE, TRUE)

\* A module item (ast::Item).
Item(kind, name, attrs, leaves, func, has_body, fns) ==
    [kind |-> kind, name |-> name, attrs |-> attrs, leaves |-> leaves,
     func |-> func, has_body |-> has_body, fns |-> fns]

Named(kind, name) == Item(kind, name, {}, <<>>, NoFn, FALSE, <<>>)
StructItem(name, attrs) == Item("Struct", name, attrs, <<>>, NoFn, FALSE, <<>>)
UseItem(leaves) == Item("Use", "", {}, leaves, NoFn, FALSE, <<>>)
FreeFunction(f) == Item("FreeFunction", f.name, f.attrs, <<>>, f, TRUE, <<>>)
ImplItem(name, attrs, has_body, fns) ==
    Item("Impl", name, attrs, <<>>, NoFn, has_body, fns)

\* A module item of the enclosing file (ast::ItemModule).
ModuleItem(attrs, has_body, items) ==
    [name |-> "c", attrs |-> attrs, has_body |-> has_body, items |-> items]

----------------------------------------------------------------------------
(* Results *)

Diag(message, what, j, n) == [message |-> message, ptr |-> <<what, j, n>>]

NoCode == [some |-> FALSE]

PluginResult(code, diags, remove_original_item) ==
    [code |-> code, diagnostics |-> diags,
     remove_original_item |-> remove_original_item]

\* PluginResult::default()
DefaultResult == PluginResult(NoCode, <<>>, FALSE)

\* Option<PluginResult>
None == [is_some |-> FALSE]
Some(r) == [is_some |-> TRUE, value |-> r]

----------------------------------------------------------------------------
(* Helpers of the plugin *)

Min(S) == CHOOSE x \in S : \A y \in S : x <= y

IsStorageStruct(item) == item.kind = "Struct" /\ item.name = STORAGE_STRUCT_NAME

\* super::utils::maybe_strip_underscore: one leading underscore is dropped.
maybe_strip_underscore(name) ==
    IF Len(name) > 0 /\ Head(name) = "_" THEN Tail(name) ELSE name

\* super::utils::is_felt252
is_felt252(ty) == ty = "felt252"

\* super::utils::is_mut_param
is_mut_param(param) == param.is_mut

\* EntryPointKind::try_from_function_with_body
EntryPointKindOf(f) ==
    IF EXTERNAL_ATTR \in f.attrs THEN "External"
    ELSE IF CONSTRUCTOR_ATTR \in f.attrs THEN "Constructor"
    ELSE IF L1_HANDLER_ATTR \in f.attrs THEN "L1Handler"
    ELSE "None"

\* EntryPointKind::get_attr
get_attr(kind) ==
    IF kind = "External" THEN EXTERNAL_ATTR
    ELSE IF kind = "Constructor" THEN CONSTRUCTOR_ATTR
    ELSE L1_HANDLER_ATTR

\* OrderedHashMap::entry(key).or_insert_with(path): the first insertion of a
\* key stays, at the place it was made.
UseKeys(uses) == {uses[n].key : n \in 1..Len(uses)}

\* A map whose insertion overwrites the path of a key already present.
or_insert_overwriting(uses, key, path) ==
    IF key \in UseKeys(uses)
    THEN [n \in 1..Len(uses) |->
            IF uses[n].key = key THEN [key |-> key, path |-> path] ELSE uses[n]]
    ELSE Append(uses, [key |-> key, path |-> path])

or_insert(uses, key, path) ==
    IF key \in UseKeys(uses) THEN uses ELSE Append(uses, [key |-> key, path |-> path])

SuperPath(ident) == "super::" \o ident

RECURSIVE InsertLeaves(_, _)
InsertLeaves(uses, leaves) ==
    IF leaves = <<>> THEN uses
    ELSE InsertLeaves(or_insert(uses, Head(leaves), SuperPath(Head(leaves))),
                      Tail(leaves))

RECURSIVE InsertSeeds(_, _)
InsertSeeds(uses, seeds) ==
    IF seeds = <<>> THEN uses
    ELSE InsertSeeds(or_insert(uses, Head(seeds).key, Head(seeds).path), Tail(seeds))

\* extra_uses.values().map(|use_path| "\n        use {use_path};")
SerializeUses(uses) == [n \in 1..Len(uses) |-> <<"\n        use ", uses[n].path, ";">>]

----------------------------------------------------------------------------
(* handle_module *)

handle_module(m) ==
    IF CONTRACT_ATTR \notin m.attrs THEN DefaultResult
    ELSE IF ~m.has_body
    THEN PluginResult(NoCode, <<Diag(MsgNoBody, "module", 0, 0)>>, FALSE)
    ELSE LET found == {j \in 1..Len(m.items) : IsStorageStruct(m.items[j])}
         IN  IF found = {}
             THEN PluginResult(NoCode, <<Diag(MsgNoStorage, "module", 0, 0)>>, FALSE)
             ELSE IF STORAGE_ATTR \notin m.items[Min(found)].attrs
             THEN PluginResult(NoCode, <<Diag(MsgStorageAttr, "module", 0, 0)>>, FALSE)
             ELSE DefaultResult

----------------------------------------------------------------------------
(* handle_contract_by_storage: the first loop *)

\* Items whose code is ignored: the first loop skips them.
ScanSkips(item) ==
    \/ item.kind = "FreeFunction" /\ EVENT_ATTR \in item.func.attrs
    \/ IsStorageStruct(item)

\* The first loop without the test of the use leaves.
ItemSetsHasEvent_no_use(item) ==
    \/ item.kind = "Struct" /\ item.name = "Event"
    \/ item.kind = "Enum" /\ item.name = "Event"

\* Whether one iteration of the first loop sets has_event.
ItemSetsHasEvent(item) ==
    \/ item.kind = "Struct" /\ item.name = "Event"
    \/ item.kind = "Enum" /\ item.name = "Event"
    \/ item.kind = "Use" /\ \E n \in 1..Len(item.leaves) : item.leaves[n] = "Event"

\* The kinds whose name the match yields as Some(ident).
YieldsIdent(item) ==
    item.kind \in {"Constant", "Module", "Impl", "Struct", "Enum", "TypeAlias"}

\* The use-set after one iteration of the first loop.
ItemExtraUses(uses, item) ==
    IF item.kind = "Use" THEN InsertLeaves(uses, item.leaves)
    ELSE IF YieldsIdent(item) THEN or_insert(uses, item.name, SuperPath(item.name))
    ELSE uses

----------------------------------------------------------------------------
(* handle_entry_point and validate_l1_handler_first_parameter *)

\* A validator that checks the name only when the type is right.
validate_l1_handler_first_parameter_else_if(params, j, n) ==
    IF Len(params) >= 2
    THEN IF ~is_felt252(params[2].ty)
         THEN <<Diag(MsgL1Type, "param", j, n)>>
         ELSE IF maybe_strip_underscore(params[2].name) # L1_HANDLER_FIRST_PARAM_NAME
         THEN <<Diag(MsgL1Name, "param", j, n)>>
         ELSE <<>>
    ELSE <<Diag(MsgL1Missing, "params", j, n)>>

validate_l1_handler_first_parameter(params, j, n) ==
    IF Len(params) >= 2
    THEN LET first_param == params[2]
         IN  (IF ~is_felt252(first_param.ty)
              THEN <<Diag(MsgL1Type, "param", j, n)>> ELSE <<>>)
             \o
             (IF maybe_strip_underscore(first_param.name) # L1_HANDLER_FIRST_PARAM_NAME
              THEN <<Diag(MsgL1Name, "param", j, n)>> ELSE <<>>)
    ELSE <<Diag(MsgL1Missing, "params", j, n)>>

\* RewriteNodes of the generation record.  A wrapper and an ABI row carry the
\* place (item j, function n of the impl, 0 for a free function) of the
\* function they were made from; the separator is plain text.
Wrapper(f, j, n, function_name) ==
    [node |-> "wrapper", j |-> j, n |-> n, text |-> function_name]
Separator == [node |-> "text", j |-> 0, n |-> 0, text |-> <<"\n        ">>]
AbiRow(attr, f, j, n) ==
    [node |-> "abi", j |-> j, n |-> n,
     text |-> <<attr, f.name,
                [p \in 1..Len(f.params) |->
                    [name |-> f.params[p].name, ty |-> f.params[p].ty,
                     is_mut |-> IF is_mut_param(f.params[p]) THEN FALSE
                                ELSE f.params[p].is_mut]]>>]

\* generate_entry_point_wrapper: Ok(wrapper) or Err(diagnostics).
generate_entry_point_wrapper(f, j, n, function_name) ==
    IF f.wrapper_ok
    THEN [ok |-> TRUE, node |-> Wrapper(f, j, n, function_name), diags |-> <<>>]
    ELSE [ok |-> FALSE, node |-> Separator, diags |-> <<Diag(MsgWrapper, "function", j, n)>>]

EmptyData ==
    [generated_external_functions |-> <<>>,
     generated_constructor_functions |-> <<>>,
     generated_l1_handler_functions |-> <<>>,
     abi_functions |-> <<>>,
     event_functions |-> <<>>,
     abi_events |-> <<>>]

\* A match that sends the constructors to the external dispatchers.
GeneratedList_constructor_as_external(kind) ==
    IF kind = "L1Handler" THEN "generated_l1_handler_functions"
    ELSE "generated_external_functions"

\* The list of the generation record a wrapper of this kind goes to.
GeneratedList(kind) ==
    IF kind = "Constructor" THEN "generated_constructor_functions"
    ELSE IF kind = "L1Handler" THEN "generated_l1_handler_functions"
    ELSE "generated_external_functions"

\* An entry-point handler that gives up on a generic function.
handle_entry_point_returning_on_generics(kind, f, function_name, j, n, diags, d) ==
    LET gen == generate_entry_point_wrapper(f, j, n, function_name)
        d1 == [d EXCEPT !.abi_functions = Append(@, AbiRow(get_attr(kind), f, j, n))]
    IN  IF f.generic
        THEN [diagnostics |-> Append(diags, Diag(MsgGeneric, "generic_params", j, n)),
              data |-> d]
        ELSE IF gen.ok
        THEN [diagnostics |->
                 IF kind = "L1Handler"
                 THEN diags \o validate_l1_handler_first_parameter(f.params, j, n)
                 ELSE diags,
              data |-> [d1 EXCEPT ![GeneratedList(kind)] = @ \o <<gen.node, Separator>>]]
        ELSE [diagnostics |-> diags \o gen.diags, data |-> d1]

\* An entry-point handler that records the separator whatever the generator
\* returned.
handle_entry_point_separator_on_failure(kind, f, function_name, j, n, diags, d) ==
    LET gen == generate_entry_point_wrapper(f, j, n, function_name)
        diags1 == IF f.generic
                  THEN Append(diags, Diag(MsgGeneric, "generic_params", j, n))
                  ELSE diags
        d1 == [d EXCEPT !.abi_functions = Append(@, AbiRow(get_attr(kind), f, j, n))]
    IN  IF gen.ok
        THEN [diagnostics |->
                 IF kind = "L1Handler"
                 THEN diags1 \o validate_l1_handler_first_parameter(f.params, j, n)
                 ELSE diags1,
              data |-> [d1 EXCEPT ![GeneratedList(kind)] = @ \o <<gen.node, Separator>>]]
        ELSE [diagnostics |-> diags1 \o gen.diags,
              data |-> [d1 EXCEPT ![GeneratedList(kind)] = Append(@, Separator)]]

\* handle_entry_point: the diagnostics and the generation record after it.
handle_entry_point(kind, f, function_name, j, n, diags, d) ==
    LET attr == get_attr(kind)
        diags1 == IF f.generic
                  THEN Append(diags, Diag(MsgGeneric, "generic_params", j, n))
                  ELSE diags
        d1 == [d EXCEPT !.abi_functions = Append(@, AbiRow(attr, f, j, n))]
        gen == generate_entry_point_wrapper(f, j, n, function_name)
    IN  IF gen.ok
        THEN [diagnostics |->
                 IF kind = "L1Handler"
                 THEN diags1 \o validate_l1_handler_first_parameter(f.params, j, n)
                 ELSE diags1,
              data |-> [d1 EXCEPT ![GeneratedList(kind)] = @ \o <<gen.node, Separator>>]]
        ELSE [diagnostics |-> diags1 \o gen.diags, data |-> d1]

----------------------------------------------------------------------------
(* The external collaborators of the second loop *)

EmptyText == [node |-> "text", j |-> 0, n |-> 0, text |-> <<"">>]

\* super::storage::handle_storage_struct: the fragment it returns is a
\* function of the struct, the use-set fragment and has_event it is given.
handle_storage_struct(item, j, uses_node, he) ==
    [code |-> [node |-> "storage", j |-> j, n |-> 0,
               text |-> <<item.attrs, uses_node, he>>],
     diags |-> <<>>]

\* super::events::handle_event: an optional pair of rewrite nodes, and
\* diagnostics.
handle_event(f, j) ==
    IF f.event_ok
    THEN [some |-> TRUE,
          event_function |-> [node |-> "event", j |-> j, n |-> 0, text |-> <<f.name>>],
          abi_event |-> [node |-> "abi_event", j |-> j, n |-> 0, text |-> <<f.name>>],
          diags |-> <<>>]
    ELSE [some |-> FALSE, event_function |-> EmptyText, abi_event |-> EmptyText,
          diags |-> <<Diag(MsgEvent, "function", j, 0)>>]

\* An impl whose functions the second loop hands to handle_entry_point.
IsExternalImpl(item) ==
    item.kind = "Impl" /\ EXTERNAL_ATTR \in item.attrs /\ item.has_body

----------------------------------------------------------------------------
(* The state machine *)

Items == module.items

\* The structs of the body after index s: handle_contract_by_storage is
\* called on each struct item, in source order.
StructsAfter(s) == {j \in (s + 1)..Len(Items) : Items[j].kind = "Struct"}

InitWith(modules) ==
    /\ module \in modules
    /\ module_result = None
    /\ struct_idx = 0
    /\ results = <<>>
    /\ pc = "module"
    /\ i = 0
    /\ k = 0
    /\ diagnostics = <<>>
    /\ kept_original_items = <<>>
    /\ extra_uses = <<>>
    /\ has_event = FALSE
    /\ extra_uses_node = <<>>
    /\ data = EmptyData
    /\ storage_code = EmptyText

locals == <<i, k, diagnostics, kept_original_items, extra_uses, has_event,
            extra_uses_node, data, storage_code>>

\* The host runs handle_module on the module item.
HandleModule ==
    /\ pc = "module"
    /\ module_result' = Some(handle_module(module))
    /\ pc' = "dispatch"
    /\ UNCHANGED <<module, struct_idx, results, locals>>

\* The host runs handle_contract_by_storage on the next struct of the body:
\* the function up to the first loop.
EnterByStorage ==
    /\ pc = "dispatch"
    /\ StructsAfter(struct_idx) # {}
    /\ struct_idx' = Min(StructsAfter(struct_idx))
    /\ i' = 1
    /\ k' = 0
    /\ diagnostics' = <<>>
    /\ kept_original_items' = <<>>
    /\ extra_uses' = <<>>
    /\ has_event' = FALSE
    /\ extra_uses_node' = <<>>
    /\ data' = EmptyData
    /\ storage_code' = EmptyText
    /\ IF CONTRACT_ATTR \notin module.attrs
       THEN results' = Append(results, None) /\ pc' = "dispatch"
       ELSE IF ~module.has_body
       THEN /\ results' = Append(results,
                Some(PluginResult(NoCode, <<Diag(MsgNoBody, "empty_body", 0, 0)>>, FALSE)))
            /\ pc' = "dispatch"
       ELSE results' = results /\ pc' = "scan"
    /\ UNCHANGED <<module, module_result>>

\* One iteration of the first loop.  An impl alias reaches todo!(), which
\* aborts the expansion.
ScanItem ==
    /\ pc = "scan"
    /\ i <= Len(Items)
    /\ LET item == Items[i]
       IN  IF ScanSkips(item)
           THEN /\ i' = i + 1
                /\ UNCHANGED <<pc, has_event, kept_original_items, extra_uses>>
           ELSE /\ has_event' = (has_event \/ ItemSetsHasEvent(item))
                /\ kept_original_items' = Append(kept_original_items, i)
                /\ IF item.kind = "ImplAlias"
                   THEN pc' = "panicked" /\ UNCHANGED <<i, extra_uses>>
                   ELSE /\ extra_uses' = ItemExtraUses(extra_uses, item)
                        /\ i' = i + 1
                        /\ pc' = pc
    /\ UNCHANGED <<module, module_result, struct_idx, results, k, diagnostics,
                   extra_uses_node, data, storage_code>>

\* After the first loop: the seed is merged into the use-set, the use-set is
\* serialized, the generation record is created.
SeedExtraUses ==
    /\ pc = "scan"
    /\ i > Len(Items)
    /\ extra_uses' = InsertSeeds(extra_uses, SEED_USES)
    /\ extra_uses_node' = SerializeUses(extra_uses')
    /\ data' = EmptyData
    /\ storage_code' = EmptyText
    /\ pc' = "gen"
    /\ i' = 1
    /\ k' = 0
    /\ UNCHANGED <<module, module_result, struct_idx, results, diagnostics,
                   kept_original_items, has_event>>

\* One iteration of the second loop on an item that is not an #[external]
\* impl with functions left.
GenItem ==
    /\ pc = "gen"
    /\ i <= Len(Items)
    /\ ~(IsExternalImpl(Items[i]) /\ Items[i].fns # <<>>)
    /\ LET item == Items[i]
           f == item.func
           kind == EntryPointKindOf(f)
       IN  IF item.kind = "FreeFunction" /\ EVENT_ATTR \in f.attrs
           THEN LET ev == handle_event(f, i)
                IN  /\ data' = IF ev.some
                               THEN [data EXCEPT
                                       !.event_functions = Append(@, ev.event_function),
                                       !.abi_events = Append(@, ev.abi_event)]
                               ELSE data
                    /\ diagnostics' = diagnostics \o ev.diags
                    /\ storage_code' = storage_code
           ELSE IF item.kind = "FreeFunction" /\ kind # "None"
           THEN LET r == handle_entry_point(kind, f, <<f.name>>, i, 0, diagnostics, data)
                IN  /\ data' = r.data
                    /\ diagnostics' = r.diagnostics
                    /\ storage_code' = storage_code
           ELSE IF IsStorageStruct(item)
           THEN LET st == handle_storage_struct(item, i, extra_uses_node, has_event)
                IN  /\ storage_code' = st.code
                    /\ diagnostics' = diagnostics \o st.diags
                    /\ data' = data
           ELSE UNCHANGED <<data, diagnostics, storage_code>>
    /\ i' = i + 1
    /\ UNCHANGED <<module, module_result, struct_idx, results, pc, k,
                   kept_original_items, extra_uses, has_event, extra_uses_node>>

\* One iteration of the inner loop over the functions of an #[external]
\* impl (fns lists the functions of the impl body; its other items are
\* skipped by the loop).
GenImplFunction ==
    /\ pc = "gen"
    /\ i <= Len(Items)
    /\ IsExternalImpl(Items[i])
    /\ k < Len(Items[i].fns)
    /\ LET item == Items[i]
           f == item.fns[k + 1]
           r == handle_entry_point("External", f, <<item.name, "::", f.name>>,
                                   i, k + 1, diagnostics, data)
       IN  /\ data' = r.data
           /\ diagnostics' = r.diagnostics
           /\ IF k + 1 = Len(item.fns)
              THEN i' = i + 1 /\ k' = 0
              ELSE i' = i /\ k' = k + 1
    /\ UNCHANGED <<module, module_result, struct_idx, results, pc,
                   kept_original_items, extra_uses, has_event, extra_uses_node,
                   storage_code>>

\* The generated file: the holes of the template that the patches fill.
GeneratedFile ==
    [some |-> TRUE,
     name |-> "contract",
     storage_code |-> storage_code,
     event_functions |-> data.event_functions,
     abi_functions |-> data.abi_functions,
     abi_events |-> data.abi_events,
     extra_uses |-> extra_uses_node,
     generated_external_functions |-> data.generated_external_functions,
     generated_l1_handler_functions |-> data.generated_l1_handler_functions,
     generated_constructor_functions |-> data.generated_constructor_functions,
     contracts |-> <<module.name>>]

\* After the second loop: the module is assembled and returned.
Assemble ==
    /\ pc = "gen"
    /\ i > Len(Items)
    /\ results' = Append(results, Some(PluginResult(GeneratedFile, diagnostics, TRUE)))
    /\ pc' = "dispatch"
    /\ UNCHANGED <<module, module_result, struct_idx, locals>>

Next ==
    \/ HandleModule
    \/ EnterByStorage
    \/ ScanItem
    \/ SeedExtraUses
    \/ GenItem
    \/ GenImplFunction
    \/ Assemble

----------------------------------------------------------------------------
(* Module bodies explored *)

StorageAnnotated == StructItem(STORAGE_STRUCT_NAME, {STORAGE_ATTR})
StoragePlain == StructItem(STORAGE_STRUCT_NAME, {})
EventStruct == StructItem("Event", {})
EventEnum == Named("Enum", "Event")
UseEvent == UseItem(<<"Event", "OptionTrait">>)
ModuleSerde == Named("Module", "ClassHashSerde")
ConstFoo == Named("Constant", "Foo")
AliasItem == Named("ImplAlias", "Al")
TraitOption == Named("Trait", "OptionTraitImpl")

FnFoo ==
    Fn("foo", {EXTERNAL_ATTR}, TRUE,
       <<SelfParam, Param(<<"x">>, "felt252", TRUE)>>, TRUE, TRUE)
FnBad == Fn("bad", {EXTERNAL_ATTR}, TRUE, <<SelfParam>>, FALSE, TRUE)
FnCtor == Fn("ctor", {CONSTRUCTOR_ATTR}, FALSE, <<SelfParam>>, TRUE, TRUE)
FnEmit == Fn("emit", {EVENT_ATTR}, FALSE, <<Param(<<"x">>, "felt252", FALSE)>>, TRUE, TRUE)
FnHelper == Fn("helper", {}, FALSE, <<>>, TRUE, TRUE)

\* L1 handlers: every shape of the parameter at index 1, with the wrapper
\* generated or not.
L1Fn(params, generic, wrapper_ok) ==
    Fn("h", {L1_HANDLER_ATTR}, generic, params, wrapper_ok, TRUE)
FromAddress == Param(<<"from_address">>, "felt252", FALSE)
UnderscoreFromAddress == Param(<<"_", "from_address">>, "felt252", FALSE)

ImplExternal == ImplItem("Ext", {EXTERNAL_ATTR}, TRUE, <<FnFoo, FnBad>>)
ImplPlain == ImplItem("OptionTraitImpl", {}, TRUE, <<FnHelper>>)

\* Items for the structure of the module: storage, events, the use-set.
StructureItems ==
    {StorageAnnotated, StoragePlain, EventStruct, EventEnum, UseEvent,
     ModuleSerde, ConstFoo, AliasItem, TraitOption, ImplExternal, ImplPlain,
     FreeFunction(FnEmit), Named("TypeAlias", "ContractAddressSerde"),
     Named("ExternFunction", "OptionTrait"), Named("ExternType", "Foo"),
     Named("Missing", "")}

BodiesOver(items) == UNION {[1..n -> items] : n \in 0..MaxItems}

\* The module without the contract attribute and the contract without body.
OtherModules ==
    {ModuleItem({}, TRUE, <<StorageAnnotated>>), ModuleItem({CONTRACT_ATTR}, FALSE, <<>>)}

ModulesOver(items) ==
    {ModuleItem({CONTRACT_ATTR}, TRUE, b) : b \in BodiesOver(items)} \cup OtherModules

Init == InitWith(ModulesOver(StructureItems))

Spec == Init /\ [][Next]_vars

\* Items for the entry points.
EntryItems ==
    {ImplExternal, ImplPlain,
     FreeFunction(FnFoo), FreeFunction(FnBad), FreeFunction(FnCtor),
     FreeFunction(FnEmit), FreeFunction(FnHelper),
     FreeFunction(L1Fn(<<SelfParam, UnderscoreFromAddress>>, FALSE, TRUE)),
     FreeFunction(L1Fn(<<SelfParam, Param(<<"x">>, "u32", FALSE)>>, TRUE, FALSE))}

InsertAt(b, p, item) == SubSeq(b, 1, p - 1) \o <<item>> \o SubSeq(b, p, Len(b))

\* Well-formed contracts: one annotated Storage struct, anywhere in a body
\* of at most longest items.
ContractsOver(bodies, longest) ==
    {ModuleItem({CONTRACT_ATTR}, TRUE,
                InsertAt(b, IF p > Len(b) THEN Len(b) + 1 ELSE p, StorageAnnotated)) :
        b \in bodies, p \in 1..(longest + 1)}

InitEntry == InitWith(ContractsOver(BodiesOver(EntryItems), MaxItems) \cup OtherModules)

SpecEntry == InitEntry /\ [][Next]_vars

\* L1 handlers: no parameter at index 1, or one of every name and type.
L1ParamLists ==
    {<<SelfParam>>}
    \cup {<<SelfParam, Param(name, ty, FALSE)>> :
            name \in {<<"from_address">>, <<"_", "from_address">>,
                      <<"_", "_", "from_address">>, <<"x">>},
            ty \in {"felt252", "u32"}}
    \cup {<<SelfParam, FromAddress, Param(<<"x">>, "u32", TRUE)>>}

L1Functions ==
    {L1Fn(params, generic, wrapper_ok) :
        params \in L1ParamLists, generic \in BOOLEAN, wrapper_ok \in BOOLEAN}

\* Contracts with two L1 handlers and an #[external] impl.
L1Bodies ==
    {<<FreeFunction(f), ImplExternal, FreeFunction(g)>> :
        f \in L1Functions, g \in {h \in L1Functions : ~h.generic}}

\* (an L1 body has three items)
InitL1 == InitWith(ContractsOver(L1Bodies, 3) \cup OtherModules)

SpecL1 == InitL1 /\ [][Next]_vars

----------------------------------------------------------------------------
(* Vocabulary of the properties *)

Range(seq) == {seq[n] : n \in 1..Len(seq)}

\* The second loop is over: the generation record is final.
GenDone == pc = "gen" /\ i > Len(Items)

\* handle_module and every call of handle_contract_by_storage have returned.
Finished == pc = "dispatch" /\ StructsAfter(struct_idx) = {}

\* The results the expansion of the module has returned so far.
Returned ==
    (IF module_result.is_some THEN {module_result.value} ELSE {})
    \cup {results[n].value : n \in {m \in 1..Len(results) : results[m].is_some}}

RECURSIVE DiagnosticCount(_)
DiagnosticCount(rs) ==
    IF rs = <<>> THEN 0
    ELSE (IF Head(rs).is_some THEN Len(Head(rs).value.diagnostics) ELSE 0)
         + DiagnosticCount(Tail(rs))

\* All diagnostics of the expansion of the module.
TotalDiagnostics == DiagnosticCount(<<module_result>> \o results)

StorageStructs == {j \in 1..Len(Items) : IsStorageStruct(Items[j])}

\* The entry points of the body: <<j, 0>> is the free function at item j,
\* <<j, n>> the n-th function of the #[external] impl at item j.
EntryPoints ==
    {<<j, 0>> : j \in {m \in 1..Len(Items) :
                         /\ Items[m].kind = "FreeFunction"
                         /\ EVENT_ATTR \notin Items[m].attrs
                         /\ Items[m].attrs \cap
                              {EXTERNAL_ATTR, CONSTRUCTOR_ATTR, L1_HANDLER_ATTR} # {}}}
    \cup UNION {{<<j, n>> : n \in 1..Len(Items[j].fns)} :
                  j \in {m \in 1..Len(Items) :
                           /\ Items[m].kind = "Impl"
                           /\ EXTERNAL_ATTR \in Items[m].attrs
                           /\ Items[m].has_body}}

FnAt(e) == IF e[2] = 0 THEN Items[e[1]].func ELSE Items[e[1]].fns[e[2]]

KindAt(e) ==
    IF e[2] # 0 \/ EXTERNAL_ATTR \in FnAt(e).attrs THEN "External"
    ELSE IF CONSTRUCTOR_ATTR \in FnAt(e).attrs THEN "Constructor"
    ELSE "L1Handler"

\* The entry points the second loop has already handled.
Handled(e) == pc = "gen" /\ (e[1] < i \/ (e[1] = i /\ e[2] # 0 /\ e[2] <= k))

HasDiag(message, e) ==
    \E p \in 1..Len(diagnostics) :
        /\ diagnostics[p].message = message
        /\ diagnostics[p].ptr[2] = e[1]
        /\ diagnostics[p].ptr[3] = e[2]

DispatcherLists ==
    {"generated_external_functions", "generated_constructor_functions",
     "generated_l1_handler_functions"}

ListOfKind(kind) ==
    CASE kind = "External" -> "generated_external_functions"
      [] kind = "Constructor" -> "generated_constructor_functions"
      [] kind = "L1Handler" -> "generated_l1_handler_functions"

HasWrapper(list, e) ==
    \E p \in 1..Len(data[list]) :
        /\ data[list][p].node = "wrapper"
        /\ data[list][p].j = e[1]
        /\ data[list][p].n = e[2]

HasAbiRow(e) ==
    \E p \in 1..Len(data.abi_functions) :
        data.abi_functions[p].j = e[1] /\ data.abi_functions[p].n = e[2]

----------------------------------------------------------------------------
(* C1, C2: the structural failures *)

\* C1: a contract module whose body holds a struct named Storage without the
\* starknet::storage attribute yields, over handle_module and
\* handle_contract_by_storage on each of its structs, exactly one diagnostic
\* and no code (code = None, remove_original_item = false in every result).
C1_UnannotatedStorageNoCode ==
    (/\ Finished
     /\ CONTRACT_ATTR \in module.attrs
     /\ \E j \in StorageStructs : STORAGE_ATTR \notin Items[j].attrs)
    => /\ \A r \in Returned : r.code = NoCode /\ ~r.remove_original_item
       /\ TotalDiagnostics = 1

\* C2: a contract module whose body holds no struct named Storage yields,
\* over handle_module and handle_contract_by_storage on each of its structs,
\* exactly one diagnostic, "Contracts must define a 'Storage' struct.", and
\* no code.
C2_MissingStorageNoCode ==
    (/\ Finished
     /\ CONTRACT_ATTR \in module.attrs
     /\ module.has_body
     /\ StorageStructs = {})
    => /\ \A r \in Returned : r.code = NoCode /\ ~r.remove_original_item
       /\ TotalDiagnostics = 1
       /\ \A r \in Returned :
            \A p \in 1..Len(r.diagnostics) : r.diagnostics[p].message = MsgNoStorage

----------------------------------------------------------------------------
(* C4: no abort *)

\* C4: handle_contract_by_storage never panics, whatever the kinds of the
\* body items: it always returns a result value.
C4_NeverAborts == pc # "panicked"

----------------------------------------------------------------------------
(* C9: duplicated Storage structs *)

\* C9: when the body holds more than one struct named Storage, the
\* storage_code of the emitted module is the fragment the storage expander
\* returned for the first of them in source order.
C9_FirstStorageHonored ==
    (GenDone /\ Cardinality(StorageStructs) > 1)
    => storage_code.node = "storage" /\ storage_code.j = Min(StorageStructs)

----------------------------------------------------------------------------
(* C10: has_event and the use-set are complete before Storage is expanded *)

\* An item that makes the module one with an event type.
DeclaresEvent(item) ==
    \/ item.kind \in {"Struct", "Enum"} /\ item.name = "Event"
    \/ item.kind = "Use" /\ "Event" \in Range(item.leaves)

BodyHasEvent == \E j \in 1..Len(Items) : DeclaresEvent(Items[j])

\* C10: throughout the second loop has_event is true iff some item anywhere
\* in the body is a struct or enum named Event or a use with a leaf Event,
\* and the fragment of the storage expander was made from that flag and from
\* the serialized use-set of the whole body, wherever Storage stands.
C10_HasEventOverWholeBody ==
    pc = "gen" =>
        /\ has_event <=> BodyHasEvent
        /\ storage_code.node = "storage" =>
             /\ storage_code.text[3] <=> BodyHasEvent
             /\ storage_code.text[2] = SerializeUses(extra_uses)

\* A Storage struct has been expanded with has_event = true although the
\* only items declaring Event come after it in the body.
C10_Witness ==
    /\ pc = "gen"
    /\ storage_code.node = "storage"
    /\ storage_code.text[3]
    /\ \A j \in 1..Len(Items) : DeclaresEvent(Items[j]) => j > storage_code.j

----------------------------------------------------------------------------
(* C6: the use-set *)

SeedKeys == {SEED_USES[n].key : n \in 1..Len(SEED_USES)}

\* The items of the body that bind a name for the generated submodules.
BindsName(item, name) ==
    \/ /\ item.kind \in {"Constant", "Module", "Impl", "Struct", "Enum", "TypeAlias"}
       /\ item.name = name
       /\ ~(item.kind = "Struct" /\ name = "Storage")
    \/ item.kind = "Use" /\ name \in Range(item.leaves)

UserNames ==
    {name \in UNION {{Items[j].name} \cup Range(Items[j].leaves) : j \in 1..Len(Items)} :
        \E j \in 1..Len(Items) : BindsName(Items[j], name)}

\* Where a user name is bound first: the item, and the leaf within a use.
FirstItem(name) == Min({j \in 1..Len(Items) : BindsName(Items[j], name)})
FirstLeaf(name) ==
    LET item == Items[FirstItem(name)]
    IN  IF item.kind = "Use"
        THEN Min({n \in 1..Len(item.leaves) : item.leaves[n] = name})
        ELSE 0
BoundBefore(a, b) ==
    \/ FirstItem(a) < FirstItem(b)
    \/ FirstItem(a) = FirstItem(b) /\ FirstLeaf(a) < FirstLeaf(b)

----------------------------------------------------------------------------
(* C3: the L1-handler validator *)

L1Handlers == {e \in EntryPoints : KindAt(e) = "L1Handler"}

\* What the validator reports on a parameter list.
ValidatorVerdict(e) ==
    LET params == FnAt(e).params
    IN  /\ HasDiag(MsgL1Missing, e) <=> Len(params) < 2
        /\ HasDiag(MsgL1Type, e) <=> (Len(params) >= 2 /\ params[2].ty # "felt252")
        /\ HasDiag(MsgL1Name, e) <=>
             (Len(params) >= 2
              /\ params[2].name \notin {<<"from_address">>, <<"_", "from_address">>})

ValidatorSilent(e) ==
    ~HasDiag(MsgL1Missing, e) /\ ~HasDiag(MsgL1Type, e) /\ ~HasDiag(MsgL1Name, e)

\* C3 as stated: every function handled as an L1Handler entry point has the
\* diagnostics of the validator, whatever the wrapper generator returned.
C3_ValidatorAlwaysRuns ==
    \A e \in L1Handlers : Handled(e) => ValidatorVerdict(e)

\* C3, amended: every function handled as an L1Handler entry point whose
\* wrapper was generated has the diagnostics of the validator (missing
\* parameter; else the type diagnostic iff the type is not felt252 and,
\* independently, the name diagnostic iff the name, one leading underscore
\* stripped, is not from_address); when the wrapper generator failed the
\* validator has not run.
C3_ValidatorRunsWhenWrapperGenerated ==
    \A e \in L1Handlers :
        Handled(e) =>
            IF FnAt(e).wrapper_ok THEN ValidatorVerdict(e) ELSE ValidatorSilent(e)

\* An L1 handler wrong in type and name got both diagnostics, another one
\* without a second parameter got the third.
C3_Witness ==
    /\ \E e \in L1Handlers :
         /\ Handled(e)
         /\ FnAt(e).wrapper_ok
         /\ Len(FnAt(e).params) >= 2
         /\ HasDiag(MsgL1Type, e)
         /\ HasDiag(MsgL1Name, e)
    /\ \E e \in L1Handlers :
         Handled(e) /\ Len(FnAt(e).params) < 2 /\ HasDiag(MsgL1Missing, e)

----------------------------------------------------------------------------
(* C5: the order of the wrappers *)

IsOdd(p) == p % 2 = 1

PlaceBefore(a, b) == a.j < b.j \/ (a.j = b.j /\ a.n < b.n)

----------------------------------------------------------------------------
(* C7: generic entry points *)

GenericDiagnostics(e) ==
    {p \in 1..Len(diagnostics) :
        diagnostics[p] = Diag(MsgGeneric, "generic_params", e[1], e[2])}

\* C7: an entry point (free function or function of an #[external] impl)
\* with a generic parameter list gets the diagnostic "Contract entry points
\* cannot have generic arguments" exactly once, at its generic parameter
\* list, and is handled all the same: its ABI row is appended and, when the
\* wrapper is generated, the wrapper is recorded in the list of its kind.
C7_GenericEntryPointStillHandled ==
    \A e \in EntryPoints :
        (Handled(e) /\ FnAt(e).generic) =>
            /\ Cardinality(GenericDiagnostics(e)) = 1
            /\ HasAbiRow(e)
            /\ FnAt(e).wrapper_ok => HasWrapper(ListOfKind(KindAt(e)), e)

\* A generic free function and a generic impl function have been handled,
\* one with its wrapper generated, one without.
C7_Witness ==
    /\ \E e \in EntryPoints :
         /\ Handled(e) /\ FnAt(e).generic /\ FnAt(e).wrapper_ok /\ e[2] = 0
         /\ HasWrapper(ListOfKind(KindAt(e)), e)
    /\ \E e \in EntryPoints :
         Handled(e) /\ FnAt(e).generic /\ ~FnAt(e).wrapper_ok /\ e[2] # 0

----------------------------------------------------------------------------
(* C8: a failed wrapper generation *)

\* The entry point the next step of the second loop handles, if any.
AtEntryPoint ==
    /\ pc = "gen"
    /\ i <= Len(Items)
    /\ \/ <<i, 0>> \in EntryPoints
       \/ <<i, k + 1>> \in EntryPoints
CurrentEntryPoint == IF <<i, 0>> \in EntryPoints THEN <<i, 0>> ELSE <<i, k + 1>>

WrapperFails == AtEntryPoint /\ ~FnAt(CurrentEntryPoint).wrapper_ok

DispatchersUnchanged ==
    /\ data'.generated_external_functions = data.generated_external_functions
    /\ data'.generated_constructor_functions = data.generated_constructor_functions
    /\ data'.generated_l1_handler_functions = data.generated_l1_handler_functions

WrapperDiagnosticsAppended ==
    /\ Len(diagnostics') > Len(diagnostics)
    /\ diagnostics'[Len(diagnostics')] =
         Diag(MsgWrapper, "function", CurrentEntryPoint[1], CurrentEntryPoint[2])
    /\ SubSeq(diagnostics', 1, Len(diagnostics)) = diagnostics

\* C8 as stated: the step that handles an entry point whose wrapper
\* generation fails appends the generator's diagnostics and adds no element
\* to the three dispatcher lists nor to abi_functions.
C8_FailedWrapperAddsNothing ==
    [][WrapperFails =>
         /\ WrapperDiagnosticsAppended
         /\ DispatchersUnchanged
         /\ data'.abi_functions = data.abi_functions]_vars

\* C8, amended: that step appends the generator's diagnostics and adds no
\* element to the three dispatcher lists; abi_functions gains exactly the
\* ABI row of the function.
C8_FailedWrapperAddsAbiRowOnly ==
    [][WrapperFails =>
         /\ WrapperDiagnosticsAppended
         /\ DispatchersUnchanged
         /\ Len(data'.abi_functions) = Len(data.abi_functions) + 1
         /\ SubSeq(data'.abi_functions, 1, Len(data.abi_functions)) = data.abi_functions
         /\ data'.abi_functions[Len(data'.abi_functions)].j = CurrentEntryPoint[1]
         /\ data'.abi_functions[Len(data'.abi_functions)].n = CurrentEntryPoint[2]]_vars

\* An entry point whose wrapper generation failed has been handled: its
\* diagnostic and its ABI row are there.
C8_Witness ==
    \E e \in EntryPoints :
        /\ Handled(e)
        /\ ~FnAt(e).wrapper_ok
        /\ HasDiag(MsgWrapper, e)
        /\ HasAbiRow(e)
        /\ \A list \in DispatcherLists : ~HasWrapper(list, e)

====
